---- MODULE Spec2Model ----
(***************************************************************************)
(* Model of the asynchronous video pipeline of app/utils/video_generation  *)
(* (VideoGenerator, VideoStitcher, VideoProcessingPipeline).               *)
(*                                                                         *)
(* One pipeline object with its single shared VideoGenerator runs          *)
(* generate_and_stitch_video on a batch of scenes.  A step of the model is *)
(* one stretch of event-loop (or executor-thread) execution between two    *)
(* suspension points of the code.                                          *)
(***************************************************************************)
EXTENDS Integers, Sequences, FiniteSets, TLC

\* Largest batch explored.
MaxScenes == 3

\* Most events one attempt reads from its stream.
MaxEvents == 3

\* Largest max_workers given to generate_video_sequence.
MaxThreads == 2

\* Largest batch explored when two runs share the pipeline.
MaxSharedScenes == 2

\* VideoGenerationConfig as the callers build it.
max_workers == 2
max_retries == 3
retry_delay == 1

VARIABLES
    scenes_data,    \* the caller's batch: the sec of each scene dictionary, in input order
    fields,         \* the keys every scene dictionary of the batch carries
    data_urls,      \* the caller's dictionaries: the value under 'url' of each, NoKey if
                    \* the dictionary has no such key
    config,         \* the VideoGenerationConfig of the pipeline: its max_retries
    other_run,      \* another generate_and_stitch_video run on the same pipeline object
    other_files,    \* the temp paths the stitch_videos call of that run registered
    scenes,         \* process_scenes: the Scene objects, [sec, url]; url 0 is None
    jobs,           \* one generate_with_semaphore task per scene
    semaphore,      \* asyncio.Semaphore(max_workers): its free permits
    session_hash,   \* VideoGenerator.session_hash, one attribute shared by all tasks
    http_session,   \* VideoGenerator._session: "None", "open" or "closed"
    run,            \* position of generate_and_stitch_video (or "direct": stitch_videos alone)
    response,       \* result["response"] of process_scenes
    result,         \* what generate_and_stitch_video returned
    stitch_calls,   \* number of invocations of stitcher.stitch_videos
    st_pc,          \* position of stitch_videos
    item,           \* video_editor.stitch_videos: position of its loop over video_data
    st_scenes,      \* stitch_videos: its scenes argument, [sec, url]
    temp_files,     \* stitch_videos: temp_files (task k downloads to temp_files[k]); a path is
                    \* named by the enumerate index of its scene
    downloaded_files, \* what gather collects per task: "pending", "exc" or the path
    overtaken,      \* some download finished while one created before it was still running
    fs,             \* temp paths that exist on disk
    valid_files,    \* stitch_videos: valid_files
    clips,          \* stitch_videos: clips (each clip named by its file)
    open_clips,     \* VideoFileClip objects opened and not closed
    concat,         \* the argument of concatenate_videoclips
    writes,         \* number of calls of write_videofile
    st_exc,         \* the exception stitch_videos is propagating, "" if none
    st_return,      \* the dictionary stitch_videos returned
    warned,         \* temp files logged as "Could not delete temp file"
    unopened,       \* files logged as "Failed to create clip"
    event,          \* the last event the running attempt took from its stream, "" if none
    consumed,       \* how many events the running attempt took from its stream
    submitted,      \* the session_hash of every queue/join request process_scenes sent so far
    scene_queue,    \* generate_video_sequence: positions of the queued scene copies, 0 for None
    unfinished_tasks, \* scene_queue.unfinished_tasks
    result_queue,   \* generate_video_sequence: the scene copies the workers put, [sec, url]
    threads,        \* the worker threads: where each is and the scene it holds
    seq_results,    \* generate_video_sequence: results
    seq_pc,         \* position of generate_video_sequence
    timed_out       \* the wait for a result ran into its timeout

in_vars == <<scenes_data, fields, data_urls, config>>
other_vars == <<other_run, other_files>>
ev_vars == <<event, consumed, submitted>>
seq_vars == <<scene_queue, unfinished_tasks, result_queue, threads, seq_results, seq_pc,
             timed_out>>
gen_vars == <<scenes, jobs, semaphore, session_hash, http_session>>
st_vars == <<st_pc, item, st_scenes, temp_files, downloaded_files, overtaken,
             fs, valid_files, clips, open_clips, concat, writes, st_exc, st_return, warned,
             unopened>>
vars ==
    <<in_vars, other_vars, ev_vars, seq_vars, gen_vars, run, response, result, stitch_calls,
      st_vars>>

(***************************************************************************)
(* Values                                                                  *)
(***************************************************************************)
None == 0
URL == 1
\* The empty string video_gen.generate_single_video returns when it failed.
NoUrl == 2
\* A scene dictionary without a 'url' key.
NoKey == 3
NoToken == <<0, 0>>
NoResult == [success |-> FALSE, path |-> "", error |-> "", returned |-> FALSE]
output_path == "final_video.mp4"

\* The fields of the Scene dataclass, and those without a default.
SceneFields == {"sec", "scene", "dialog", "url"}
RequiredFields == {"sec", "scene", "dialog"}

\* The keys of the scene dictionaries a caller passes: the three required ones, the
\* ScriptLine records of the script writer (with non_dialog and gender), and records
\* that lack the dialog.
FieldSets ==
    {RequiredFields, RequiredFields \cup {"non_dialog", "gender"}, {"sec", "scene"}}

\* Scene batches: sec is 1-based, contiguous and unique within a batch; any input order.
Batches ==
    UNION {{b \in [1..n -> 1..n] : \A i, k \in 1..n : i # k => b[i] # b[k]} : n \in 0..MaxScenes}

Range(s) == {s[i] : i \in DOMAIN s}

RECURSIVE Pow2(_)
Pow2(n) == IF n = 0 THEN 1 ELSE 2 * Pow2(n - 1)

\* list.sort(key=lambda x: x.sec): stable insertion by key
RECURSIVE InsertBySec(_, _)
InsertBySec(x, s) ==
    IF s = <<>> THEN <<x>>
    ELSE IF x.sec < Head(s).sec THEN <<x>> \o s
         ELSE <<Head(s)>> \o InsertBySec(x, Tail(s))

RECURSIVE SortBySec(_)
SortBySec(s) ==
    IF s = <<>> THEN <<>>
    ELSE InsertBySec(s[Len(s)], SortBySec(SubSeq(s, 1, Len(s) - 1)))

(***************************************************************************)
(* VideoGenerator                                                          *)
(***************************************************************************)
\* A token drawn once for a scene and kept for its retries.
GenerateSessionHashPerScene(j, n) == <<j, 1>>

\* _generate_session_hash: 13 random alphanumeric characters.  The token drawn for the
\* n-th attempt of task j is the fresh value <<j, n>>; collisions of random tokens
\* (probability 62^-13) are left out.
GenerateSessionHash(j, n) == <<j, n>>

\* A generate_with_semaphore task and the generate_single_video call inside it:
\*   pc        where the task is: "waiting" for a permit, "posting" (queue/join sent),
\*             "submitted" (_wait_for_video_result handed to the executor), "streaming",
\*             "sleeping" (backoff), "done"
\*   attempt   the loop variable of generate_single_video
\*   sent      the session_hash in the queue_data of the running attempt
\*   sse       the session_hash in the sse_url of the running attempt
\*   attempts  calls of _generate_video_attempt so far;  failed: how many of them raised
\*   slept     the delays passed to asyncio.sleep so far
\*   cause     the exception e the except clause is handling
\*   got       the attempt whose url generate_single_video returned, 0 if none
\*   raised, error   generate_single_video raised VideoGenerationError(error)
IdleJob ==
    [pc |-> "waiting", attempt |-> 0, sent |-> NoToken, sse |-> NoToken,
     attempts |-> 0, failed |-> 0, slept |-> <<>>, cause |-> "", got |-> 0,
     raised |-> FALSE, error |-> ""]

\* The frames of a finished process_scenes call are gone.
GoneJob == [IdleJob EXCEPT !.pc = "gone"]

\* A get_session that creates a session only when there has never been one.
GetSessionOnlyOnce(s) == IF s = "None" THEN "open" ELSE s

\* get_session: a ClientSession is created when there is none or the one there is closed
\* (line 71); the session is left open on exit.
GetSession(s) == IF s = "None" \/ s = "closed" THEN "open" ELSE s

\* A close() without its test: closing raises when there is no session or the session
\* is closed already.
CloseSessionUnguarded(s) == IF s = "open" THEN "closed" ELSE "raised"

\* close(): closes an open session.
CloseSession(s) == IF s = "open" THEN "closed" ELSE s

\* _generate_video_attempt up to the suspension in session.post: store a new token in
\* self.session_hash, build queue_data with it, send queue/join.  No event of this
\* attempt's stream has been read yet.
BeginAttempt(j, a) ==
    LET h == GenerateSessionHash(j, jobs[j].attempts + 1) IN
    /\ session_hash' = h
    /\ http_session' = GetSession(http_session)
    /\ event' = ""
    /\ consumed' = 0
    /\ submitted' = submitted \cup {h}
    /\ jobs' = [jobs EXCEPT ![j] = [@ EXCEPT !.pc = "posting", !.attempt = a, !.sent = h,
                                              !.sse = NoToken, !.cause = "",
                                              !.attempts = @ + 1]]

\* A delay computed from the attempt number of the log message (attempt + 1).
BackoffDelayFromOne(attempt) == retry_delay * Pow2(attempt + 1)

\* asyncio.sleep(self.config.retry_delay * (2 ** attempt))
BackoffDelay(attempt) == retry_delay * Pow2(attempt)

\* A retry loop that gives up one attempt early.
RetryAgainGivesUpEarly(attempt) == attempt < max_retries - 2

\* A retry loop that makes one attempt too many.
RetryAgainOnceMore(attempt) == attempt < max_retries

\* The except clause of generate_single_video: is another attempt made?
RetryAgain(attempt) == attempt < config.max_retries - 1

\* for attempt in range(self.config.max_retries): is there an iteration for `attempt`?
InRange(attempt) == attempt < config.max_retries

\* A limiter that hands out a permit it does not have.
CanAcquireUnchecked(value) == TRUE

\* generate_with_semaphore: async with semaphore
CanAcquire(value) == value > 0

\* gather starts the tasks in input order and the semaphore wakes its waiters first
\* come, first served: task j gets its permit after every task before it.
NextInLine(j) == \A i \in 1..(j - 1) : jobs[i].pc # "waiting"

\* raise VideoGenerationError(f"Failed to generate video after ... attempts: {e}"):
\* the error carries the exception being handled.
RaisedError(e) == e

\* A limiter whose permit is lost with the task that held it.
SemaphoreExitKeepsPermit(value) == value

\* generate_with_semaphore leaves its `async with semaphore` block, by return or by
\* exception: the permit is released.
SemaphoreExit(value) == value + 1

\* An orchestrator that puts a scene whose generation raised back in line.
AfterGenerationErrorRequeues == "waiting"

\* generate_with_semaphore after generate_single_video raised: the except clause sets
\* scene.url = None and the task returns its scene; it is over.
AfterGenerationError == "done"

\* An attempt of task j raised with the given cause: back off and retry, or raise
\* VideoGenerationError, which generate_with_semaphore catches (scene.url = None),
\* leaving the semaphore block.
AttemptFailed(j, cause) ==
    IF RetryAgain(jobs[j].attempt)
    THEN /\ jobs' = [jobs EXCEPT ![j] = [@ EXCEPT !.pc = "sleeping",
                          !.sent = NoToken, !.sse = NoToken,
                          !.failed = @ + 1, !.cause = cause,
                          !.slept = Append(@, BackoffDelay(jobs[j].attempt))]]
         /\ UNCHANGED <<scenes, semaphore>>
    ELSE /\ jobs' = [jobs EXCEPT ![j] = [@ EXCEPT !.pc = AfterGenerationError,
                          !.sent = NoToken, !.sse = NoToken,
                          !.failed = @ + 1, !.cause = cause,
                          !.raised = TRUE, !.error = RaisedError(cause)]]
         /\ scenes' = [scenes EXCEPT ![j].url = None]
         /\ semaphore' = SemaphoreExit(semaphore)

\* generate_with_semaphore acquires a permit and generate_single_video runs its first
\* attempt up to the post.  When range(max_retries) is empty the loop body never runs:
\* generate_single_video falls off its end and returns None without an attempt,
\* scene.url is set to that None and the permit is released again.
StartJob(j) ==
    /\ run = "process_scenes"
    /\ jobs[j].pc = "waiting"
    /\ CanAcquire(semaphore)
    /\ NextInLine(j)
    /\ IF InRange(0)
       THEN /\ semaphore' = semaphore - 1
            /\ BeginAttempt(j, 0)
            /\ UNCHANGED scenes
       ELSE /\ jobs' = [jobs EXCEPT ![j].pc = "done"]
            /\ scenes' = [scenes EXCEPT ![j].url = None]
            /\ UNCHANGED <<ev_vars, semaphore, session_hash, http_session>>
    /\ UNCHANGED <<in_vars, other_vars, seq_vars, run, response, result, stitch_calls, st_vars>>

\* queue/join answered with an error status, or the post itself raised.
PostFail(j) ==
    /\ run = "process_scenes"
    /\ jobs[j].pc = "posting"
    /\ AttemptFailed(j, "Queue join failed")
    /\ UNCHANGED <<in_vars, other_vars, seq_vars, ev_vars, session_hash, http_session, run,
                   response, result, stitch_calls, st_vars>>

\* queue/join answered ok: _wait_for_video_result is handed to the executor.
PostOk(j) ==
    /\ run = "process_scenes"
    /\ jobs[j].pc = "posting"
    /\ jobs' = [jobs EXCEPT ![j].pc = "submitted"]
    /\ UNCHANGED <<in_vars, other_vars, seq_vars, ev_vars, scenes, semaphore, session_hash,
                   http_session, run, response, result, stitch_calls, st_vars>>

\* The token _wait_for_video_result puts in the URL of its event stream.
StreamToken(j) == session_hash

\* The executor thread builds sse_url from self.session_hash and opens the stream.
OpenStream(j) ==
    /\ run = "process_scenes"
    /\ jobs[j].pc = "submitted"
    /\ jobs' = [jobs EXCEPT ![j] = [@ EXCEPT !.pc = "streaming", !.sse = StreamToken(j)]]
    /\ UNCHANGED <<in_vars, other_vars, seq_vars, ev_vars, scenes, semaphore, session_hash,
                   http_session, run, response, result, stitch_calls, st_vars>>

\* The attempt of task j returned a url: generate_single_video and the task return;
\* scene.url is set and the permit released.
AttemptReturned(j) ==
    /\ jobs' = [jobs EXCEPT ![j] = [@ EXCEPT !.pc = "done", !.sent = NoToken, !.sse = NoToken,
                                              !.got = jobs[j].attempts]]
    /\ scenes' = [scenes EXCEPT ![j].url = URL]
    /\ semaphore' = SemaphoreExit(semaphore)

\* process_completed with a video url arrived on the stream of task j.
StreamSuccess(j) ==
    /\ run = "process_scenes"
    /\ jobs[j].pc = "streaming"
    /\ AttemptReturned(j)
    /\ UNCHANGED <<in_vars, other_vars, seq_vars, ev_vars, session_hash, http_session, run,
                   response, result, stitch_calls, st_vars>>

\* What _wait_for_video_result raises: "SSE Error: ..." for an exception inside the try
\* block, the timeout of requests.get(..., timeout=config.timeout) told apart from the
\* others (transport error, invalid video data); "No video URL received" when the
\* stream closed or ended without a result.
StreamErrors == {"SSE Error: timeout", "SSE Error", "No video URL received"}

\* The stream of task j failed.
StreamFail(j) ==
    /\ run = "process_scenes"
    /\ jobs[j].pc = "streaming"
    /\ \E cause \in StreamErrors : AttemptFailed(j, cause)
    /\ UNCHANGED <<in_vars, other_vars, seq_vars, ev_vars, session_hash, http_session, run,
                   response, result, stitch_calls, st_vars>>

\* One event of the stream as the loop of _wait_for_video_result sees it: no data; data
\* that is not JSON; JSON that is not an object (a list, a number, a string, null); an
\* object whose msg is informational; process_completed with or without a usable
\* video url; close_stream.
Informational == {"estimation", "process_started", "process_generating"}

EventKinds ==
    {"no data", "not JSON", "not an object", "process_completed: url",
     "process_completed: no url", "close_stream"} \cup Informational

\* A loop in which close_stream ends the wait with an empty url handed back as the
\* result of the attempt.
HandleEventCloseReturns(kind) ==
    CASE kind = "process_completed: url" -> "return"
      [] kind = "close_stream" -> "return"
      [] kind = "process_completed: no url" -> "SSE Error: Invalid video data received"
      [] kind = "not an object" -> "SSE Error: AttributeError"
      [] OTHER -> "continue"

\* The body of the loop for one event: "continue" (the next event is awaited), "return"
\* (the url is returned), or the message of the VideoGenerationError raised.  An event
\* without data is skipped and JSONDecodeError is caught; data.get on a value that is
\* not a dictionary raises AttributeError, and that, like the VideoGenerationError for
\* invalid video data, is caught by the outer except clause and raised as SSE Error;
\* close_stream breaks out of the loop to the raise at the end.
HandleEvent(kind) ==
    CASE kind = "no data" -> "continue"
      [] kind = "not JSON" -> "continue"
      [] kind = "not an object" -> "SSE Error: AttributeError"
      [] kind \in Informational -> "continue"
      [] kind = "process_completed: url" -> "return"
      [] kind = "process_completed: no url" -> "SSE Error: Invalid video data received"
      [] kind = "close_stream" -> "No video URL received"

\* The loop of task j takes the next event from its stream.
ConsumeEvent(j) ==
    /\ run = "process_scenes"
    /\ jobs[j].pc = "streaming"
    /\ consumed < MaxEvents
    /\ \E kind \in EventKinds :
          /\ event' = kind
          /\ consumed' = consumed + 1
          /\ LET outcome == HandleEvent(kind) IN
             IF outcome = "continue" THEN UNCHANGED <<jobs, scenes, semaphore>>
             ELSE IF outcome = "return" THEN AttemptReturned(j)
             ELSE AttemptFailed(j, outcome)
    /\ UNCHANGED <<in_vars, other_vars, seq_vars, submitted, session_hash, http_session, run,
                   response, result, stitch_calls, st_vars>>

\* The backoff sleep is over: the next iteration of the retry loop starts its attempt.
WakeUp(j) ==
    /\ run = "process_scenes"
    /\ jobs[j].pc = "sleeping"
    /\ BeginAttempt(j, jobs[j].attempt + 1)
    /\ UNCHANGED <<in_vars, other_vars, seq_vars, scenes, semaphore, run, response, result,
                   stitch_calls, st_vars>>

(***************************************************************************)
(* VideoProcessingPipeline                                                 *)
(***************************************************************************)
HasUrl(scene) == scene.url # None

\* A result list that keeps every processed scene, failed ones too.
SuccessfulScenesUnfiltered(processed) == processed

\* A gather that lets the first exception through: one failure empties the result.
SuccessfulScenesAllOrNothing(processed) ==
    IF \E i \in DOMAIN processed : ~HasUrl(processed[i]) THEN <<>>
    ELSE SelectSeq(processed, HasUrl)

\* successful_scenes: the processed scenes that carry a url, in gather (input) order.
SuccessfulScenes(processed) == SelectSeq(processed, HasUrl)

\* A response left in gather order, without the sort.
ProcessScenesResponseUnsorted(processed) == SuccessfulScenes(processed)

\* The "response" list process_scenes returns: the successful scenes sorted by sec.
ProcessScenesResponse(processed) == SortBySec(SuccessfulScenes(processed))

\* A pipeline that calls the stitcher whatever the response holds.
StitchWantedAlways(resp) == TRUE

\* generate_and_stitch_video: is the stitcher invoked on this response?
StitchWanted(resp) == resp # <<>>

\* Scene(**scene_data): the dataclass constructor takes exactly its own fields, and
\* needs those without a default.
SceneAccepts(keys) == RequiredFields \subseteq keys /\ keys \subseteq SceneFields

\* The TypeError Scene(**scene_data) raises for the keys it does not accept.
SceneInitError(keys) ==
    IF keys \subseteq SceneFields
    THEN "Scene.__init__() missing required positional argument"
    ELSE "Scene.__init__() got an unexpected keyword argument"

\* A pipeline without the except clause: the exception leaves
\* generate_and_stitch_video and no dictionary is returned.
PipelineResultPropagates(exc, ret) ==
    IF exc = ""
    THEN [success |-> ret.success, path |-> ret.path, error |-> "", returned |-> TRUE]
    ELSE NoResult

\* A pipeline that reports success whatever the stitcher did.
PipelineResultHidesError(exc, ret) ==
    [success |-> TRUE, path |-> output_path, error |-> "", returned |-> TRUE]

\* The dictionary generate_and_stitch_video returns after the call inside its try block
\* returned `ret` (exc = "") or raised `exc`: the except clause turns any exception
\* into a failure dictionary carrying str(e).
PipelineResult(exc, ret) ==
    IF exc = ""
    THEN [success |-> ret.success, path |-> ret.path, error |-> "", returned |-> TRUE]
    ELSE [success |-> FALSE, path |-> "", error |-> exc, returned |-> TRUE]

\* process_scenes up to its gather: the Scene objects are built from the dictionaries,
\* the semaphore is created and one task per scene is handed to gather.  If a
\* dictionary is not accepted by Scene, the TypeError leaves process_scenes and
\* generate_and_stitch_video returns its failure dictionary, closing the generator's
\* session in its finally block.
CreateScenes ==
    /\ run = "called"
    /\ IF scenes_data # <<>> /\ ~SceneAccepts(fields)
       THEN /\ result' = PipelineResult(SceneInitError(fields), NoResult)
            /\ http_session' = CloseSession(http_session)
            /\ run' = "returned"
            /\ UNCHANGED <<scenes, jobs, semaphore>>
       ELSE /\ scenes' = [j \in DOMAIN scenes_data |-> [sec |-> scenes_data[j], url |-> None]]
            /\ jobs' = [j \in DOMAIN scenes_data |-> IdleJob]
            /\ semaphore' = max_workers
            /\ run' = "process_scenes"
            /\ UNCHANGED <<result, http_session>>
    /\ UNCHANGED <<in_vars, other_vars, seq_vars, ev_vars, session_hash, response,
                   stitch_calls, st_vars>>

\* gather has collected every task: process_scenes returns, and
\* generate_and_stitch_video either returns its failure dictionary (closing the
\* generator's session in its finally block) or calls stitcher.stitch_videos.
FinishGeneration ==
    /\ run = "process_scenes"
    /\ \A j \in DOMAIN jobs : jobs[j].pc = "done"
    /\ LET resp == ProcessScenesResponse(scenes) IN
       /\ response' = resp
       /\ jobs' = [j \in DOMAIN jobs |-> GoneJob]
       /\ submitted' = {}
       /\ IF StitchWanted(resp)
          THEN /\ run' = "stitching"
               /\ stitch_calls' = stitch_calls + 1
               /\ st_pc' = "called"
               /\ st_scenes' = resp
               /\ UNCHANGED <<result, http_session>>
          ELSE /\ run' = "returned"
               /\ result' = [success |-> FALSE, path |-> "",
                             error |-> "No videos were generated successfully",
                             returned |-> TRUE]
               /\ http_session' = CloseSession(http_session)
               /\ UNCHANGED <<stitch_calls, st_pc, st_scenes>>
    /\ UNCHANGED <<in_vars, other_vars, seq_vars, event, consumed, scenes, semaphore,
                   session_hash, item, temp_files, downloaded_files, overtaken, fs,
                   valid_files, clips, open_clips, concat, writes, st_exc, st_return, warned,
                   unopened>>

(***************************************************************************)
(* VideoStitcher                                                           *)
(***************************************************************************)
\* An entry of the list gather builds: the task still runs, it raised, or its path.
Pending == 0
Exc == 0 - 1

\* The seconds of the clock: 0 is the second in which this stitch_videos call names its
\* temp files, 1 any other second.
Seconds == {0, 1}

\* os.path.join(temp_dir, f"temp_video_{i}_{int(time.time())}.mp4"): the temp path for
\* the scene at enumerate position i, named in second t; temp_dir is the one directory
\* of the pipeline's config.
TempPath(i, t) == i + (MaxScenes + 1) * t

\* The positions of the scenes that carry a url: the temp path of scene i is named by i.
RECURSIVE UrlPositions(_, _)
UrlPositions(sc, i) ==
    IF i > Len(sc) THEN <<>>
    ELSE IF HasUrl(sc[i]) THEN <<i>> \o UrlPositions(sc, i + 1)
         ELSE UrlPositions(sc, i + 1)

\* stitch_videos ends, returning `ret` or raising `exc`.  Called on its own it stays
\* at "returned" or "raised".  Called by generate_and_stitch_video, the same stretch of
\* execution builds the pipeline's result and closes the generator's session in the
\* finally block; the frame of stitch_videos is gone.
StitchEnds(exc, ret) ==
    /\ st_pc' = IF exc = "" THEN "returned" ELSE "raised"
    /\ IF run = "stitching"
       THEN /\ result' = PipelineResult(exc, ret)
            /\ http_session' = CloseSession(http_session)
            /\ run' = "returned"
            /\ st_scenes' = <<>>
            /\ temp_files' = <<>>
            /\ downloaded_files' = <<>>
            /\ overtaken' = FALSE
            /\ valid_files' = <<>>
            /\ clips' = <<>>
            /\ unopened' = {}
            /\ concat' = <<>>
            /\ writes' = 0
            /\ st_exc' = ""
            /\ st_return' = [success |-> FALSE, path |-> ""]
       ELSE /\ st_exc' = exc
            /\ st_return' = ret
            /\ UNCHANGED <<result, http_session, run, st_scenes, temp_files, downloaded_files,
                           overtaken, valid_files, clips, unopened, concat, writes>>

\* A loop that takes the scenes it skips out of the list it was given.
ScenesAfterLoopDropsSkipped(sc) == SelectSeq(sc, HasUrl)

\* The caller's scenes after the loop over enumerate(scenes): the loop reads scene.url
\* and scene.sec, and assigns to no scene and to no position of the list.
ScenesAfterLoop(sc) == sc

\* stitch_videos up to the gather of its downloads.
StitchBegin ==
    /\ st_pc = "called"
    /\ IF st_scenes = <<>>
       THEN \* raised before the try block: no cleanup runs
            /\ StitchEnds("No scenes provided for stitching", st_return)
       ELSE LET paths == [k \in DOMAIN UrlPositions(st_scenes, 1) |->
                                TempPath(UrlPositions(st_scenes, 1)[k], 0)] IN
            /\ temp_files' = paths
            /\ downloaded_files' = [k \in DOMAIN paths |-> Pending]
            /\ IF paths = <<>>
               THEN /\ st_exc' = "No valid video URLs to download"
                    /\ st_pc' = "cleanup"
               ELSE /\ st_pc' = "downloading"
                    /\ UNCHANGED st_exc
            /\ st_scenes' = ScenesAfterLoop(st_scenes)
            /\ UNCHANGED <<result, http_session, run, overtaken, valid_files, clips,
                           unopened, concat, writes, st_return>>
    /\ UNCHANGED <<in_vars, other_vars, seq_vars, ev_vars, scenes, jobs, semaphore, session_hash,
                   response, stitch_calls, item, fs, open_clips, warned>>

\* A collector that appends each result as its task finishes (as_completed).
GatherAsCompleted(results, k, value) ==
    LET first == CHOOSE i \in DOMAIN results :
                     /\ results[i] = Pending
                     /\ \A e \in 1..(i - 1) : results[e] # Pending
    IN [results EXCEPT ![first] = value]

\* asyncio.gather(*download_tasks, return_exceptions=True): the result of task k goes
\* to position k of the list, whenever it finishes.
GatherStore(results, k, value) == [results EXCEPT ![k] = value]

\* download_video of task k ends: the file is complete, or the request failed before
\* the file was opened, or the transfer broke with the file partly written.
DownloadDone(k) ==
    /\ st_pc = "downloading"
    /\ k \in DOMAIN downloaded_files
    /\ downloaded_files[k] = Pending
    /\ \E outcome \in {"ok", "no file", "partial"} :
          /\ downloaded_files' =
                GatherStore(downloaded_files, k, IF outcome = "ok" THEN temp_files[k] ELSE Exc)
          /\ fs' = IF outcome = "no file" THEN fs ELSE fs \cup {temp_files[k]}
    /\ overtaken' = (overtaken \/ \E e \in 1..(k - 1) : downloaded_files[e] = Pending)
    /\ UNCHANGED <<in_vars, other_vars, seq_vars, ev_vars, gen_vars, run, response, result,
                   stitch_calls, st_pc, item, st_scenes, temp_files, valid_files, clips,
                   open_clips, concat, writes, st_exc, st_return, warned, unopened>>

\* valid_files = [f for f in downloaded_files if isinstance(f, str) and os.path.exists(f)]
ValidFiles(results, disk) ==
    LET Valid(f) == f # Exc /\ f # Pending /\ f \in disk IN SelectSeq(results, Valid)

\* Every download has ended: gather returns and the failed downloads are filtered out.
AfterGather ==
    /\ st_pc = "downloading"
    /\ \A k \in DOMAIN downloaded_files : downloaded_files[k] # Pending
    /\ LET valid == ValidFiles(downloaded_files, fs) IN
       /\ valid_files' = valid
       /\ IF valid = <<>>
          THEN /\ st_exc' = "No videos downloaded successfully"
               /\ st_pc' = "cleanup"
          ELSE /\ st_pc' = "create_clips"
               /\ UNCHANGED st_exc
    /\ UNCHANGED <<in_vars, other_vars, seq_vars, ev_vars, gen_vars, run, response, result,
                   stitch_calls, item, st_scenes, temp_files, downloaded_files, overtaken,
                   fs, clips, open_clips, concat, writes, st_return, warned, unopened>>

\* A create_clips in which one file that does not open costs all the clips.
CreateClipsAllOrNothing(files, bad) == IF Range(files) \cap bad = {} THEN files ELSE <<>>

\* create_clips: a VideoFileClip per valid file, in list order; a file that does not
\* open (those of `bad`) is logged and left out.
CreateClips(files, bad) == LET Opens(f) == f \notin bad IN SelectSeq(files, Opens)

\* create_clips returned from the executor.
ClipsCreated ==
    /\ st_pc = "create_clips"
    /\ \E bad \in SUBSET Range(valid_files) :
          LET made == CreateClips(valid_files, bad) IN
          /\ clips' = made
          /\ unopened' = unopened \cup bad
          /\ IF made = <<>>
             THEN \* the except clause has no clip to close
                  /\ st_exc' = "No valid video clips created"
                  /\ st_pc' = "cleanup"
                  /\ open_clips' = {}
             ELSE /\ st_pc' = "stitch"
                  /\ open_clips' = Range(made)
                  /\ UNCHANGED st_exc
    /\ UNCHANGED <<in_vars, other_vars, seq_vars, ev_vars, gen_vars, run, response, result,
                   stitch_calls, item, st_scenes, temp_files, downloaded_files, overtaken,
                   fs, valid_files, concat, writes, st_return, warned>>

\* concatenate_videoclips(clips, method="compose")
ConcatArgument(cl) == cl

\* A stitch() that tries the fallback write a second time when it failed.
WriteAttemptsRetriesFallback(outcome) ==
    CASE outcome = "written" -> 1
      [] outcome = "concat failed" -> 0
      [] outcome = "fallback written" -> 2
      [] OTHER -> 3

\* The calls of write_videofile stitch() makes: none when concatenate_videoclips
\* raised, one when the first write went through, and the first and the fallback
\* otherwise.
WriteAttempts(outcome) ==
    CASE outcome = "written" -> 1
      [] outcome = "concat failed" -> 0
      [] OTHER -> 2

\* stitch() returned from the executor or raised there: the clips are concatenated,
\* written (with one fallback write) and closed; if concatenation or both writes
\* raise, the except clause of stitch_videos closes the clips and re-raises.
StitchDone ==
    /\ st_pc = "stitch"
    /\ concat' = ConcatArgument(clips)
    /\ open_clips' = {}
    /\ st_pc' = "cleanup"
    /\ \E outcome \in {"written", "fallback written", "write failed", "concat failed"} :
          /\ writes' = WriteAttempts(outcome)
          /\ IF outcome \in {"written", "fallback written"}
             THEN /\ st_return' = [success |-> TRUE, path |-> output_path]
                  /\ UNCHANGED st_exc
             ELSE /\ st_exc' = outcome
                  /\ UNCHANGED st_return
    /\ UNCHANGED <<in_vars, other_vars, seq_vars, ev_vars, gen_vars, run, response, result,
                   stitch_calls, item, st_scenes, temp_files, downloaded_files, overtaken,
                   fs, valid_files, clips, warned, unopened>>

\* A cleanup that a removal error ends: the files after the first one that cannot be
\* removed are left on disk unreported.
CleanupTempFilesStopsAtError(disk, files, stuck) ==
    LET bad == {i \in DOMAIN files : files[i] \in stuck}
        first == IF bad = {} THEN Len(files) + 1
                 ELSE CHOOSE i \in bad : \A k \in bad : i <= k
    IN disk \ {files[i] : i \in 1..(first - 1)}

\* _cleanup_temp_files: every temp file that exists is removed; a removal that raises
\* (every file of `stuck`) is logged and the file stays.
CleanupTempFiles(disk, files, stuck) == (disk \ Range(files)) \cup stuck

\* The finally clause of stitch_videos, after which stitch_videos returns or re-raises.
Cleanup ==
    /\ st_pc = "cleanup"
    /\ \E stuck \in SUBSET (Range(temp_files) \cap fs) :
          /\ fs' = CleanupTempFiles(fs, temp_files, stuck)
          /\ warned' = warned \cup stuck
    /\ StitchEnds(st_exc, st_return)
    /\ UNCHANGED <<in_vars, other_vars, seq_vars, ev_vars, scenes, jobs, semaphore, session_hash,
                   response, stitch_calls, item, open_clips>>

(***************************************************************************)
(* A second run on the pipeline object of main.get_video_pipeline          *)
(***************************************************************************)
\* The other run reached stitch_videos, with one to MaxScenes generated scenes, and
\* names their temp files, in the second t of the clock; that is the second in which
\* this call names its own only if this call is about to name them or is downloading.
OtherStitchBegin ==
    /\ other_run = "running"
    /\ other_run' = "stitching"
    /\ \E n \in 1..MaxScenes, t \in Seconds :
          /\ t = 0 => st_pc \in {"called", "downloading"}
          /\ other_files' = {TempPath(i, t) : i \in 1..n}
    /\ UNCHANGED <<in_vars, seq_vars, ev_vars, gen_vars, run, response, result, stitch_calls,
                   st_vars>>

\* The downloads of the other run wrote its temp files.
OtherDownload ==
    /\ other_run = "stitching"
    /\ other_run' = "downloaded"
    /\ fs' = fs \cup other_files
    /\ UNCHANGED <<in_vars, other_files, seq_vars, ev_vars, gen_vars, run, response, result,
                   stitch_calls, st_pc, item, st_scenes, temp_files, downloaded_files,
                   overtaken, valid_files, clips, open_clips, concat, writes, st_exc,
                   st_return, warned, unopened>>

\* What an attempt raises whose queue/join request was in flight on the session when
\* the session was closed.
SessionClosedError == "Server disconnected"

\* session.close() closes the connections of the session, those in use too: a
\* queue/join request in flight on it is cut off.
CutRequests(js) ==
    [j \in DOMAIN js |-> IF js[j].pc = "posting" THEN [js[j] EXCEPT !.pc = "disconnected"]
                         ELSE js[j]]

\* The other run ends, at any point: the finally clause of its stitch_videos, if it got
\* there, removes the temp paths it registered, and the finally clause of its
\* generate_and_stitch_video closes the session of the generator both runs use.
OtherRunReturns ==
    /\ other_run \in {"running", "stitching", "downloaded"}
    /\ other_run' = "returned"
    /\ fs' = fs \ other_files
    /\ other_files' = {}
    /\ http_session' = CloseSession(http_session)
    /\ jobs' = CutRequests(jobs)
    /\ UNCHANGED <<in_vars, seq_vars, ev_vars, scenes, semaphore, session_hash, run, response,
                   result, stitch_calls, st_pc, item, st_scenes, temp_files,
                   downloaded_files, overtaken, valid_files, clips, open_clips, concat,
                   writes, st_exc, st_return, warned, unopened>>

\* The post of task j raised because its connection was closed under it.
PostDisconnected(j) ==
    /\ run = "process_scenes"
    /\ jobs[j].pc = "disconnected"
    /\ AttemptFailed(j, SessionClosedError)
    /\ UNCHANGED <<in_vars, other_vars, seq_vars, ev_vars, session_hash, http_session, run,
                   response, result, stitch_calls, st_vars>>

(***************************************************************************)
(* video_editor.stitch_videos: the synchronous stitcher                    *)
(***************************************************************************)
\* One pass of the loop over video_data.  An item without a url is skipped.  For the
\* others NamedTemporaryFile(delete=False) creates the temp file, which is registered;
\* then the download is made and the clip opened.  An exception of the download
\* (raise_for_status, a broken transfer) or of VideoFileClip leaves the try block: the
\* items after it are never reached.  The entry appended to downloaded_files records
\* how the download of the item ended.
EditorItem ==
    /\ run = "editor"
    /\ st_pc = "loop"
    /\ item <= Len(st_scenes)
    /\ IF ~HasUrl(st_scenes[item])
       THEN /\ item' = item + 1
            /\ UNCHANGED <<st_pc, temp_files, downloaded_files, fs, clips, open_clips, st_exc>>
       ELSE /\ temp_files' = Append(temp_files, item)
            /\ fs' = fs \cup {item}
            /\ \E outcome \in {"ok", "download failed", "clip failed"} :
                  /\ downloaded_files' =
                        Append(downloaded_files, IF outcome = "download failed" THEN Exc ELSE item)
                  /\ IF outcome = "ok"
                     THEN /\ clips' = Append(clips, item)
                          /\ open_clips' = open_clips \cup {item}
                          /\ item' = item + 1
                          /\ UNCHANGED <<st_pc, st_exc>>
                     ELSE /\ st_exc' = outcome
                          /\ st_pc' = "finally"
                          /\ UNCHANGED <<clips, open_clips, item>>
    /\ UNCHANGED <<in_vars, other_vars, seq_vars, ev_vars, gen_vars, run, response, result,
                   stitch_calls, st_scenes, overtaken, valid_files, concat, writes,
                   st_return, warned, unopened>>

\* After the loop: no clip raises ValueError; otherwise the clips are concatenated and
\* written, and only after a successful write closed.
EditorMerge ==
    /\ run = "editor"
    /\ st_pc = "loop"
    /\ item > Len(st_scenes)
    /\ st_pc' = "finally"
    /\ IF clips = <<>>
       THEN /\ st_exc' = "No valid video clips to stitch."
            /\ UNCHANGED <<concat, writes, open_clips, st_return>>
       ELSE \E outcome \in {"written", "write failed", "concat failed"} :
               /\ concat' = IF outcome = "concat failed" THEN concat ELSE ConcatArgument(clips)
               /\ writes' = IF outcome = "concat failed" THEN 0 ELSE 1
               /\ IF outcome = "written"
                  THEN /\ open_clips' = {}
                       /\ st_return' = [success |-> TRUE, path |-> output_path]
                       /\ UNCHANGED st_exc
                  ELSE /\ st_exc' = outcome
                       /\ UNCHANGED <<open_clips, st_return>>
    /\ UNCHANGED <<in_vars, other_vars, seq_vars, ev_vars, gen_vars, run, response, result,
                   stitch_calls, item, st_scenes, temp_files, downloaded_files, overtaken,
                   fs, valid_files, clips, warned, unopened>>

\* The exception of os.remove that the finally clause does not catch: any OSError
\* that is not a PermissionError.
RemovalError == "OSError"

\* The temp files the loop of the finally clause gets to: all of them, or those before
\* position `broken`, where os.remove raised an error that is not caught.
EditorReached(files, broken) ==
    {files[i] : i \in 1..(IF broken = 0 THEN Len(files) ELSE broken - 1)}

\* The finally clause goes through temp_files in order and removes every file that
\* exists.  A removal that raises PermissionError (the files of `stuck`) is reported
\* and the file stays.  A removal that raises another error (at position `broken`)
\* ends the loop: the error leaves stitch_videos in place of its return value or of
\* the exception it was propagating.  Otherwise the function returns, or its
\* exception goes on to the caller.
EditorFinally ==
    /\ run = "editor"
    /\ st_pc = "finally"
    /\ \E broken \in {0} \cup {i \in DOMAIN temp_files : temp_files[i] \in fs} :
       \E stuck \in SUBSET (EditorReached(temp_files, broken) \cap fs) :
          /\ fs' = (fs \ EditorReached(temp_files, broken)) \cup stuck
          /\ warned' = warned \cup stuck
          /\ st_exc' = IF broken = 0 THEN st_exc ELSE RemovalError
          /\ st_return' = IF broken = 0 THEN st_return ELSE [success |-> FALSE, path |-> ""]
          /\ st_pc' = IF broken = 0 /\ st_exc = "" THEN "returned" ELSE "raised"
    /\ UNCHANGED <<in_vars, other_vars, seq_vars, ev_vars, gen_vars, run, response, result,
                   stitch_calls, item, st_scenes, temp_files, downloaded_files, overtaken,
                   valid_files, clips, open_clips, concat, writes, unopened>>

(***************************************************************************)
(* video_gen.generate_video_sequence: the threaded generator               *)
(***************************************************************************)
\* Queue.task_done() raises ValueError when no task is unfinished.
TaskDoneRaises(unfinished) == unfinished <= 0

\* The except clause of worker_thread calls task_done(); when that raises, the
\* exception leaves the thread function and the thread is over.
WorkerAfterTaskDone(w) ==
    IF TaskDoneRaises(unfinished_tasks)
    THEN [threads EXCEPT ![w] = [pc |-> "died", scene |-> 0]]
    ELSE [threads EXCEPT ![w] = [pc |-> "get", scene |-> 0]]

\* A get that hands out the first item and leaves it on the queue.
DequeuePeeks(queue) == queue

\* What scene_queue.get leaves on the queue: the item it returns is removed.
Dequeue(queue) == Tail(queue)

\* scene_queue.get returned: None ends the worker, a scene is handed to
\* generate_single_video.
WorkerGet(w) ==
    /\ run = "sequence"
    /\ threads[w].pc = "get"
    /\ scene_queue # <<>>
    /\ scene_queue' = Dequeue(scene_queue)
    /\ threads' = IF Head(scene_queue) = 0
                  THEN [threads EXCEPT ![w] = [pc |-> "exited", scene |-> 0]]
                  ELSE [threads EXCEPT ![w] = [pc |-> "generating", scene |-> Head(scene_queue)]]
    /\ UNCHANGED <<in_vars, other_vars, ev_vars, gen_vars, run, response, result,
                   stitch_calls, st_vars, unfinished_tasks, result_queue, seq_results,
                   seq_pc, timed_out>>

\* scene_queue.get(timeout=1) raised Empty: the except clause calls task_done() for a
\* scene the worker never took.
WorkerGetEmpty(w) ==
    /\ run = "sequence"
    /\ threads[w].pc = "get"
    /\ scene_queue = <<>>
    /\ threads' = WorkerAfterTaskDone(w)
    /\ unfinished_tasks' = IF TaskDoneRaises(unfinished_tasks) THEN unfinished_tasks
                           ELSE unfinished_tasks - 1
    /\ UNCHANGED <<in_vars, other_vars, ev_vars, gen_vars, run, response, result,
                   stitch_calls, st_vars, scene_queue, result_queue, seq_results, seq_pc,
                   timed_out>>

\* A worker that writes the url into the dictionary of the caller.
CallerUrlsAfterWriteAliased(urls, i, url) == [urls EXCEPT ![i] = url]

\* scene['url'] = video_url in worker_thread: scene is the scene.copy() that line 152
\* queued, a dictionary of its own, so the dictionary of the caller keeps what it had.
CallerUrlsAfterWrite(urls, i, url) == urls

\* generate_single_video returned (the url, or "" after any failure; it has no
\* timeout): the scene copy gets its url and is put on result_queue, then task_done()
\* is called; if that raises, the except clause calls it again and the thread is over.
WorkerPut(w) ==
    /\ run = "sequence"
    /\ threads[w].pc = "generating"
    /\ \E url \in {URL, NoUrl} :
          /\ result_queue' =
                 Append(result_queue, [sec |-> scenes_data[threads[w].scene], url |-> url])
          /\ data_urls' = CallerUrlsAfterWrite(data_urls, threads[w].scene, url)
    /\ threads' = WorkerAfterTaskDone(w)
    /\ unfinished_tasks' = IF TaskDoneRaises(unfinished_tasks) THEN unfinished_tasks
                           ELSE unfinished_tasks - 1
    /\ UNCHANGED <<scenes_data, fields, config, other_vars, ev_vars, gen_vars, run, response,
                   result,
                   stitch_calls, st_vars, scene_queue, seq_results, seq_pc, timed_out>>

\* result_queue.get(timeout=300) returned a scene: it is appended to results.
CollectResult ==
    /\ run = "sequence"
    /\ seq_pc = "collecting"
    /\ Len(seq_results) < Len(scenes_data)
    /\ result_queue # <<>>
    /\ seq_results' = Append(seq_results, Head(result_queue))
    /\ result_queue' = Tail(result_queue)
    /\ UNCHANGED <<in_vars, other_vars, ev_vars, gen_vars, run, response, result,
                   stitch_calls, st_vars, scene_queue, unfinished_tasks, threads, seq_pc,
                   timed_out>>

\* for _ in range(max_workers): scene_queue.put(None)
PutSentinels(queue) == queue \o [w \in DOMAIN threads |-> 0]

\* The loop ended with every scene collected: the sentinels are queued and the
\* threads joined.
CollectEnd ==
    /\ run = "sequence"
    /\ seq_pc = "collecting"
    /\ Len(seq_results) = Len(scenes_data)
    /\ scene_queue' = PutSentinels(scene_queue)
    /\ unfinished_tasks' = unfinished_tasks + Len(threads)
    /\ seq_pc' = "joining"
    /\ UNCHANGED <<in_vars, other_vars, ev_vars, gen_vars, run, response, result,
                   stitch_calls, st_vars, result_queue, threads, seq_results, timed_out>>

\* result_queue.get(timeout=300) raised Empty, no result having come for 300 seconds
\* while some worker is busy with a scene: the except clause breaks out of the loop;
\* the sentinels are queued and the threads joined.
CollectTimeout ==
    /\ run = "sequence"
    /\ seq_pc = "collecting"
    /\ Len(seq_results) < Len(scenes_data)
    /\ result_queue = <<>>
    /\ \E w \in DOMAIN threads : threads[w].pc = "generating"
    /\ timed_out' = TRUE
    /\ scene_queue' = PutSentinels(scene_queue)
    /\ unfinished_tasks' = unfinished_tasks + Len(threads)
    /\ seq_pc' = "joining"
    /\ UNCHANGED <<in_vars, other_vars, ev_vars, gen_vars, run, response, result,
                   stitch_calls, st_vars, result_queue, threads, seq_results>>

\* Every join returned, the thread being over or its join(timeout=10) having run out
\* on a worker busy with a scene: results is sorted by sec and returned.  The daemon
\* threads that are still busy go on.
SequenceReturn ==
    /\ run = "sequence"
    /\ seq_pc = "joining"
    /\ \A w \in DOMAIN threads : threads[w].pc # "get"
    /\ response' = SortBySec(seq_results)
    /\ seq_pc' = "returned"
    /\ UNCHANGED <<in_vars, other_vars, ev_vars, gen_vars, run, result, stitch_calls, st_vars,
                   scene_queue, unfinished_tasks, result_queue, threads, seq_results,
                   timed_out>>

(***************************************************************************)
(* Specifications                                                          *)
(***************************************************************************)
SequenceIdle ==
    /\ scene_queue = <<>>
    /\ unfinished_tasks = 0
    /\ result_queue = <<>>
    /\ threads = <<>>
    /\ seq_results = <<>>
    /\ seq_pc = "idle"
    /\ timed_out = FALSE

StitchIdle ==
    /\ st_pc = "idle"
    /\ item = 0
    /\ warned = {}
    /\ unopened = {}
    /\ st_scenes = <<>>
    /\ temp_files = <<>>
    /\ downloaded_files = <<>>
    /\ overtaken = FALSE
    /\ fs = {}
    /\ valid_files = <<>>
    /\ clips = <<>>
    /\ open_clips = {}
    /\ concat = <<>>
    /\ writes = 0
    /\ st_exc = ""
    /\ st_return = [success |-> FALSE, path |-> ""]

\* generate_and_stitch_video(scenes_data) is called on a new pipeline.
Init ==
    /\ scenes_data \in Batches
    /\ data_urls = [i \in DOMAIN scenes_data |-> NoKey]
    /\ fields \in FieldSets
    /\ config = [max_retries |-> max_retries]
    /\ other_run = "none"
    /\ other_files = {}
    /\ event = ""
    /\ consumed = 0
    /\ submitted = {}
    /\ SequenceIdle
    /\ scenes = <<>>
    /\ jobs = <<>>
    /\ semaphore = max_workers
    /\ session_hash = NoToken
    /\ http_session = "None"
    /\ run = "called"
    /\ response = <<>>
    /\ result = NoResult
    /\ stitch_calls = 0
    /\ StitchIdle

Next ==
    \/ CreateScenes
    \/ \E j \in DOMAIN jobs : StartJob(j)
    \/ \E j \in DOMAIN jobs : PostFail(j)
    \/ \E j \in DOMAIN jobs : PostOk(j)
    \/ \E j \in DOMAIN jobs : OpenStream(j)
    \/ \E j \in DOMAIN jobs : StreamSuccess(j)
    \/ \E j \in DOMAIN jobs : StreamFail(j)
    \/ \E j \in DOMAIN jobs : WakeUp(j)
    \/ FinishGeneration
    \/ StitchBegin
    \/ \E k \in DOMAIN downloaded_files : DownloadDone(k)
    \/ AfterGather
    \/ ClipsCreated
    \/ StitchDone
    \/ Cleanup

Spec == Init /\ [][Next]_vars

\* The same run when every awaited operation ends: the answer to a post, an event
\* stream, a backoff sleep, a download and an executor call all come back, and the
\* event loop resumes a task that is ready.  A step that can be taken is taken.
FairSpec == Spec /\ WF_vars(Next)

\* generate_and_stitch_video on a batch of one scene, up to the end of its
\* generate_single_video call, the stream of every attempt read event by event; the
\* stream can also fail or end between two events (StreamFail).
InitStream == Init /\ scenes_data = <<1>> /\ fields = RequiredFields

NextStream ==
    \/ CreateScenes
    \/ \E j \in DOMAIN jobs : StartJob(j)
    \/ \E j \in DOMAIN jobs : PostFail(j)
    \/ \E j \in DOMAIN jobs : PostOk(j)
    \/ \E j \in DOMAIN jobs : OpenStream(j)
    \/ \E j \in DOMAIN jobs : ConsumeEvent(j)
    \/ \E j \in DOMAIN jobs : StreamFail(j)
    \/ \E j \in DOMAIN jobs : WakeUp(j)

SpecStream == InitStream /\ [][NextStream]_vars

\* The object get_video_pipeline builds when the global holds none.
NewPipeline == "VideoProcessingPipeline"

\* get_video_pipeline, as a function of the global _video_pipeline: the value it
\* leaves in the global and returns.
get_video_pipeline(global) == IF global = "None" THEN NewPipeline ELSE global

\* generate_and_stitch_video is called on the pipeline object of get_video_pipeline
\* while another run on that object is under way.
InitShared ==
    /\ scenes_data \in {b \in Batches : Len(b) <= MaxSharedScenes}
    /\ data_urls = [i \in DOMAIN scenes_data |-> NoKey]
    /\ fields \in FieldSets
    /\ config = [max_retries |-> max_retries]
    /\ other_run = "running"
    /\ other_files = {}
    /\ event = ""
    /\ consumed = 0
    /\ submitted = {}
    /\ SequenceIdle
    /\ scenes = <<>>
    /\ jobs = <<>>
    /\ semaphore = max_workers
    /\ session_hash = NoToken
    /\ http_session \in {"None", "open", "closed"}
    /\ run = "called"
    /\ response = <<>>
    /\ result = NoResult
    /\ stitch_calls = 0
    /\ StitchIdle

NextShared ==
    \/ Next
    \/ OtherStitchBegin
    \/ OtherDownload
    \/ OtherRunReturns
    \/ \E j \in DOMAIN jobs : PostDisconnected(j)

SpecShared == InitShared /\ [][NextShared]_vars

\* The values of max_retries a VideoGenerationConfig is built with: the dataclass takes
\* any integer.
ConfiguredRetries == {0 - 1, 0} \cup 1..max_retries

\* generate_and_stitch_video on a pipeline built with any of these configurations.
InitConfig ==
    /\ scenes_data \in {b \in Batches : Len(b) <= MaxSharedScenes}
    /\ data_urls = [i \in DOMAIN scenes_data |-> NoKey]
    /\ fields = RequiredFields
    /\ config \in [max_retries : ConfiguredRetries]
    /\ other_run = "none"
    /\ other_files = {}
    /\ event = ""
    /\ consumed = 0
    /\ submitted = {}
    /\ SequenceIdle
    /\ scenes = <<>>
    /\ jobs = <<>>
    /\ semaphore = max_workers
    /\ session_hash = NoToken
    /\ http_session = "None"
    /\ run = "called"
    /\ response = <<>>
    /\ result = NoResult
    /\ stitch_calls = 0
    /\ StitchIdle

SpecConfig == InitConfig /\ [][Next]_vars

\* generate_video_sequence(scenes_data, max_workers) after it queued a copy of every
\* scene and started its worker threads.
InitSequence ==
    /\ scenes_data \in Batches
    /\ data_urls = [i \in DOMAIN scenes_data |-> NoKey]
    /\ fields = RequiredFields
    /\ config = [max_retries |-> max_retries]
    /\ other_run = "none"
    /\ other_files = {}
    /\ event = ""
    /\ consumed = 0
    /\ submitted = {}
    /\ threads \in {[w \in 1..n |-> [pc |-> "get", scene |-> 0]] : n \in 1..MaxThreads}
    /\ scene_queue = [i \in DOMAIN scenes_data |-> i]
    /\ unfinished_tasks = Len(scenes_data)
    /\ result_queue = <<>>
    /\ seq_results = <<>>
    /\ seq_pc = "collecting"
    /\ timed_out = FALSE
    /\ scenes = <<>>
    /\ jobs = <<>>
    /\ semaphore = max_workers
    /\ session_hash = NoToken
    /\ http_session = "None"
    /\ run = "sequence"
    /\ response = <<>>
    /\ result = NoResult
    /\ stitch_calls = 0
    /\ StitchIdle

NextSequence ==
    \/ \E w \in DOMAIN threads : WorkerGet(w)
    \/ \E w \in DOMAIN threads : WorkerGetEmpty(w)
    \/ \E w \in DOMAIN threads : WorkerPut(w)
    \/ CollectResult
    \/ CollectEnd
    \/ CollectTimeout
    \/ SequenceReturn

SpecSequence == InitSequence /\ [][NextSequence]_vars

\* stitch_videos called on its own with any scene list: scenes in any order, with or
\* without a url.
StitchInputs ==
    UNION {{[i \in 1..n |-> [sec |-> b[i], url |-> u[i]]] :
               b \in {c \in Batches : Len(c) = n}, u \in [1..n -> {None, URL}]} :
           n \in 0..MaxScenes}

InitStitch ==
    /\ scenes_data = <<>>
    /\ data_urls = [i \in DOMAIN scenes_data |-> NoKey]
    /\ fields = RequiredFields
    /\ config = [max_retries |-> max_retries]
    /\ other_run = "none"
    /\ other_files = {}
    /\ event = ""
    /\ consumed = 0
    /\ submitted = {}
    /\ SequenceIdle
    /\ item = 0
    /\ warned = {}
    /\ unopened = {}
    /\ scenes = <<>>
    /\ jobs = <<>>
    /\ semaphore = max_workers
    /\ session_hash = NoToken
    /\ http_session = "None"
    /\ run = "direct"
    /\ response = <<>>
    /\ result = NoResult
    /\ stitch_calls = 1
    /\ st_pc = "called"
    /\ st_scenes \in StitchInputs
    /\ temp_files = <<>>
    /\ downloaded_files = <<>>
    /\ overtaken = FALSE
    /\ fs = {}
    /\ valid_files = <<>>
    /\ clips = <<>>
    /\ open_clips = {}
    /\ concat = <<>>
    /\ writes = 0
    /\ st_exc = ""
    /\ st_return = [success |-> FALSE, path |-> ""]

NextStitch ==
    \/ StitchBegin
    \/ \E k \in DOMAIN downloaded_files : DownloadDone(k)
    \/ AfterGather
    \/ ClipsCreated
    \/ StitchDone
    \/ Cleanup

SpecStitch == InitStitch /\ [][NextStitch]_vars

\* video_editor.stitch_videos called with any list of items, with or without a url.
InitEditor ==
    /\ scenes_data = <<>>
    /\ data_urls = [i \in DOMAIN scenes_data |-> NoKey]
    /\ fields = RequiredFields
    /\ config = [max_retries |-> max_retries]
    /\ other_run = "none"
    /\ other_files = {}
    /\ event = ""
    /\ consumed = 0
    /\ submitted = {}
    /\ SequenceIdle
    /\ scenes = <<>>
    /\ jobs = <<>>
    /\ semaphore = max_workers
    /\ session_hash = NoToken
    /\ http_session = "None"
    /\ run = "editor"
    /\ response = <<>>
    /\ result = NoResult
    /\ stitch_calls = 1
    /\ st_pc = "loop"
    /\ item = 1
    /\ warned = {}
    /\ unopened = {}
    /\ st_scenes \in StitchInputs
    /\ temp_files = <<>>
    /\ downloaded_files = <<>>
    /\ overtaken = FALSE
    /\ fs = {}
    /\ valid_files = <<>>
    /\ clips = <<>>
    /\ open_clips = {}
    /\ concat = <<>>
    /\ writes = 0
    /\ st_exc = ""
    /\ st_return = [success |-> FALSE, path |-> ""]

NextEditor ==
    \/ EditorItem
    \/ EditorMerge
    \/ EditorFinally

SpecEditor == InitEditor /\ [][NextEditor]_vars

\* Either stitcher, called on its own.
InitStitchers == InitStitch \/ InitEditor

NextStitchers == NextStitch \/ NextEditor

SpecStitchers == InitStitchers /\ [][NextStitchers]_vars

(***************************************************************************)
(* Properties                                                              *)
(***************************************************************************)
Jobs == DOMAIN jobs

\* A task is in flight from acquiring its permit until it leaves the semaphore block.
InFlight(j) ==
    jobs[j].pc \in {"posting", "disconnected", "submitted", "streaming", "sleeping"}

Failed(j) == jobs[j].pc = "done" /\ jobs[j].raised

Succeeded(j) == jobs[j].pc = "done" /\ ~jobs[j].raised

\* C1: every attempt opens its event stream with the session_hash it sent in its own
\* queue/join request, never with a token another in-flight attempt wrote.
C1_StreamUsesOwnToken ==
    \A j \in Jobs : jobs[j].pc = "streaming" => jobs[j].sse = jobs[j].sent

\* C2: at every moment of process_scenes at most max_workers tasks are in flight, and
\* the free permits account for exactly the tasks in flight.
C2_AtMostMaxWorkersInFlight ==
    /\ Cardinality({j \in Jobs : InFlight(j)}) <= max_workers
    /\ semaphore = max_workers - Cardinality({j \in Jobs : InFlight(j)})

\* C2 witness: more tasks than permits; the limiter is full again after the permit of
\* a task that failed for good went to the task that was waiting.
C2_Witness ==
    /\ Cardinality(Jobs) > max_workers
    /\ Cardinality({j \in Jobs : InFlight(j)}) = max_workers
    /\ \E j \in Jobs : Failed(j)
    /\ \A j \in Jobs : jobs[j].pc # "waiting"

Generated == run \notin {"called", "process_scenes"}

SucceededScenes == {j \in DOMAIN scenes : scenes[j].url # None}

FailedScenes == {j \in DOMAIN scenes : scenes[j].url = None}

Entries(sec) == {k \in DOMAIN response : response[k].sec = sec}

\* C3: the scenes handed to the stitcher are the response of process_scenes, which is
\* strictly increasing by sec (so without duplicates) and holds only scenes whose
\* generation produced a url.
C3_StitcherGetsSuccessfulScenesInSecOrder ==
    /\ \A a, b \in DOMAIN response : a < b => response[a].sec < response[b].sec
    /\ \A a \in DOMAIN response :
          /\ response[a].url # None
          /\ \E j \in SucceededScenes : scenes[j].sec = response[a].sec
    /\ run = "stitching" => st_scenes = response

\* C3 witness: stitch_videos is called with two scenes that came in descending sec
\* order, a third scene having failed.
C3_Witness ==
    /\ run = "stitching"
    /\ st_pc = "called"
    /\ Len(st_scenes) = 2
    /\ FailedScenes # {}
    /\ \E i, k \in SucceededScenes : i < k /\ scenes[i].sec > scenes[k].sec

C5_FailureSparesSiblings ==
    [][(run = "process_scenes" /\ run' # "process_scenes") =>
          \A j \in Jobs :
              /\ jobs[j].attempts >= 1
              /\ Succeeded(j) =>
                    \E k \in DOMAIN response' :
                        /\ response'[k].sec = scenes[j].sec
                        /\ response'[k].url = scenes[j].url]_vars

\* C5 witness: two scenes exhausted their retries and the third is in the response.
C5_Witness ==
    /\ Generated
    /\ Cardinality(FailedScenes) = 2
    /\ Len(response) = 1

\* C6: when every scene failed, generate_and_stitch_video returns success false with
\* an error and no path, and stitch_videos was not invoked: no temp file, no download,
\* no write.
C6_AllFailedSkipsStitcher ==
    (Generated /\ SucceededScenes = {}) =>
        /\ run = "returned"
        /\ result.returned
        /\ ~result.success
        /\ result.error # ""
        /\ result.path = ""
        /\ stitch_calls = 0
        /\ st_pc = "idle"
        /\ temp_files = <<>>
        /\ downloaded_files = <<>>
        /\ fs = {}
        /\ concat = <<>>
        /\ writes = 0

\* C6 witness: a run over several scenes that all failed has returned.
C6_Witness ==
    /\ result.returned
    /\ Len(scenes_data) >= 2
    /\ SucceededScenes = {}

Causes == {"Queue join failed"} \cup StreamErrors

\* C7: a call of generate_single_video that ends after k < max_retries failed attempts
\* ends by returning, never by raising: it returns the url of attempt k+1, having made
\* exactly k+1 attempts; and as long as fewer than max_retries attempts failed the
\* call goes on.
C7_SuccessAfterTransientFailures ==
    \A j \in Jobs :
        /\ Succeeded(j) =>
              /\ jobs[j].failed < max_retries
              /\ jobs[j].attempts = jobs[j].failed + 1
              /\ jobs[j].got = jobs[j].failed + 1
              /\ scenes[j].url = URL
              /\ jobs[j].error = ""
        /\ (jobs[j].pc = "done" /\ jobs[j].failed < max_retries) => Succeeded(j)
        /\ jobs[j].pc = "sleeping" =>
              (jobs[j].failed < max_retries /\ jobs[j].attempts = jobs[j].failed)

\* C7 witness: a call returned a url after max_retries - 1 failed attempts.
C7_Witness ==
    \E j \in Jobs : Succeeded(j) /\ jobs[j].failed = max_retries - 1 /\ scenes[j].url = URL

\* C8: generate_single_video never makes more than max_retries attempts; when it
\* raises, exactly max_retries attempts were made and all failed, the error carries the
\* cause of the last one, the scene has no url, and the scene is not in the response.
C8_ExhaustedRetriesRaiseLastCause ==
    /\ \A j \in Jobs :
          /\ jobs[j].attempts <= max_retries
          /\ jobs[j].failed = max_retries => Failed(j)
          /\ Failed(j) =>
                /\ jobs[j].attempts = max_retries
                /\ jobs[j].failed = max_retries
                /\ jobs[j].cause \in Causes
                /\ jobs[j].error = jobs[j].cause
                /\ jobs[j].got = 0
                /\ scenes[j].url = None
    /\ Generated => \A j \in FailedScenes : Entries(scenes[j].sec) = {}

\* C8 witness: a call raised after its last attempt's stream closed without a result,
\* while another scene succeeded.
C8_Witness ==
    \E j, k \in Jobs :
        /\ Failed(j)
        /\ jobs[j].error = "No video URL received"
        /\ Succeeded(k)

Sleeps(j) == jobs[j].slept

\* C9: the i-th sleep of a call lasts retry_delay * 2^(i-1), i.e. retry_delay * 2^attempt
\* for the attempt index that failed; one sleep follows every failed attempt but the
\* last possible one, so a sleep separates every two consecutive attempts and none
\* follows the final attempt.
C9_BackoffSchedule ==
    \A j \in Jobs :
        /\ \A i \in DOMAIN Sleeps(j) : Sleeps(j)[i] = retry_delay * Pow2(i - 1)
        /\ jobs[j].pc = "sleeping" => Len(Sleeps(j)) = jobs[j].attempts
        /\ jobs[j].pc \in {"posting", "submitted", "streaming", "done"} =>
              Len(Sleeps(j)) = jobs[j].attempts - 1
        /\ Failed(j) => Len(Sleeps(j)) = max_retries - 1

\* C9 witness: a call that exhausted its retries slept retry_delay and 2 * retry_delay.
C9_Witness ==
    \E j \in Jobs : Failed(j) /\ Sleeps(j) = <<retry_delay, 2 * retry_delay>>

DownloadedPaths ==
    {temp_files[k] : k \in {i \in DOMAIN downloaded_files : downloaded_files[i] = temp_files[i]}}

\* C10: the clips given to concatenate_videoclips are in the order of the scenes
\* argument (a clip is named by the position of its scene), each one a file whose
\* download succeeded and that opened, whatever order the downloads ended in.
C10_ConcatenationInInputOrder ==
    /\ \A a, b \in DOMAIN clips : a < b => clips[a] < clips[b]
    /\ \A a, b \in DOMAIN concat : a < b => concat[a] < concat[b]
    /\ concat # <<>> =>
          /\ concat = clips
          /\ Range(concat) \subseteq DownloadedPaths
          /\ \A f \in Range(concat) : HasUrl(st_scenes[f])

\* C10 witness: of three sources one download failed, a later download ended before
\* an earlier one, and the two remaining clips were concatenated and written.
C10_Witness ==
    /\ st_pc = "returned"
    /\ Len(st_scenes) = 3
    /\ overtaken
    /\ \E k \in DOMAIN downloaded_files : downloaded_files[k] = Exc
    /\ Len(concat) = 2

Ended == st_pc \in {"returned", "raised"}

\* The exceptions that report a failed download.
DownloadFailures == {"No videos downloaded successfully", "download failed"}

\* C11: a failed download does not fail the call when another download succeeded: the
\* files kept after the downloads are exactly those whose download succeeded, in input
\* order, the call never ends with a download failure while a download succeeded, and
\* a call that returns reports success with clips taken only from downloaded files;
\* with an empty input or no successful download the call raises.
C11_FailedDownloadTolerated ==
    /\ st_pc \in {"create_clips", "stitch"} =>
          LET Got(f) == f \in DownloadedPaths IN valid_files = SelectSeq(temp_files, Got)
    /\ (Ended /\ DownloadedPaths # {}) => st_exc \notin DownloadFailures
    /\ st_pc = "returned" =>
          /\ st_return.success
          /\ concat # <<>>
          /\ Range(concat) \subseteq DownloadedPaths
    /\ (Ended /\ (st_scenes = <<>> \/ DownloadedPaths = {})) =>
          /\ st_pc = "raised"
          /\ ~st_return.success

\* C12 as claimed: after stitch_videos returned or raised no temp file is on disk.
C12_NoTempFileAfterRun == Ended => fs = {}

\* C12 amended: after stitch_videos returned or raised, a temp file it registered is
\* on disk only if removing it raised, which was logged; or, in video_editor, if the
\* removal of a temp file raised an error that is not caught, which then left the call
\* with the files not yet removed still on disk.
C12_TempFilesRemovedUnlessRemovalFailed ==
    /\ fs \subseteq Range(temp_files) \cup warned
    /\ Ended => (fs = warned \/ (run = "editor" /\ st_exc = RemovalError /\ warned \subseteq fs))

\* C12 witness: a call that raised after one download failed and another one wrote
\* its file ended with nothing on disk.
C12_Witness ==
    /\ st_pc = "raised"
    /\ Len(temp_files) >= 2
    /\ DownloadedPaths # {}
    /\ \E k \in DOMAIN downloaded_files : downloaded_files[k] = Exc
    /\ fs = {}
    /\ warned = {}

\* C13: when stitch_videos has returned or raised, no clip it opened is still open.
C13_EveryOpenedClipClosed == Ended => open_clips = {}

\* C14: generate_and_stitch_video ends only by returning a dictionary, whatever failed
\* inside: the dictionary has success with the output path and no error, or no success
\* with a non-empty error and no path; an exception of Scene(**scene_data) or of
\* stitch_videos, and a batch without a generated scene, give the second form.
C14_PipelineAlwaysReturnsResult ==
    /\ run \in {"called", "process_scenes", "stitching", "returned"}
    /\ (run = "returned") <=> result.returned
    /\ result.returned =>
          \/ result.success /\ result.path = output_path /\ result.error = ""
          \/ ~result.success /\ result.path = "" /\ result.error # ""
    /\ (run = "returned" /\ (st_pc = "raised" \/ stitch_calls = 0)) => ~result.success
    /\ (run = "returned" /\ st_pc = "returned") => result.success

\* C14 witness: the stitcher raised after its encode step failed and the run returned
\* a failure dictionary carrying that error.
C14_Witness ==
    /\ result.returned
    /\ ~result.success
    /\ st_pc = "raised"
    /\ result.error \in {"write failed", "concat failed"}

\* The error of a run in which no scene was generated.
AllScenesFailedError == "No videos were generated successfully"

\* C15: the result of a run on an empty scene list is a rejection of the input, not the
\* result of a run whose scenes all failed.
C15_EmptyBatchNotReportedAsAllFailed ==
    (scenes_data = <<>> /\ result.returned) => result.error # AllScenesFailedError

\* The phase of the run.  Aggregating (the filter, the sort and the test for an empty
\* response) has no suspension point: it happens inside the step that leaves generating.
Phase ==
    CASE run = "called" -> "collecting scenes"
      [] run = "process_scenes" -> "generating"
      [] run = "stitching" -> "stitching"
      [] run = "returned" -> IF result.success THEN "done" ELSE "failed"

ClaimedTransitions ==
    {<<"collecting scenes", "generating">>, <<"generating", "stitching">>,
     <<"stitching", "done">>, <<"generating", "failed">>, <<"stitching", "failed">>}

\* What must be true of a phase change: failed is entered from generating only when no
\* scene succeeded and from stitching only when stitch_videos raised; stitching is
\* entered with a non-empty response and done after stitch_videos returned.
TransitionJustified ==
    /\ (Phase = "generating" /\ Phase' = "failed") => SucceededScenes = {}
    /\ (Phase = "generating" /\ Phase' = "stitching") => response' # <<>>
    /\ (Phase = "stitching" /\ Phase' = "failed") => st_pc' = "raised"
    /\ (Phase = "stitching" /\ Phase' = "done") => st_pc' = "returned"

\* C16 as claimed: the run changes phase only along collecting scenes -> generating ->
\* (aggregating) -> stitching -> done, and enters failed only from generating or from
\* stitching.
C16_PhasesOnlyAsClaimed ==
    [][Phase' # Phase => (<<Phase, Phase'>> \in ClaimedTransitions /\ TransitionJustified)]_vars

\* C16 amended: as claimed, with one more way into failed: from collecting scenes, when
\* the batch is not empty and a scene dictionary lacks a field of Scene or carries a
\* field Scene does not have.
C16_PhasesWithRejectedBatch ==
    [][Phase' # Phase =>
          /\ \/ <<Phase, Phase'>> \in ClaimedTransitions
             \/ /\ <<Phase, Phase'>> = <<"collecting scenes", "failed">>
                /\ scenes_data # <<>>
                /\ ~(RequiredFields \subseteq fields /\ fields \subseteq SceneFields)
          /\ TransitionJustified]_vars

\* C16 witness: a run of three scenes, one of which failed, went through stitching and
\* is done.
C16_Witness ==
    /\ Phase = "done"
    /\ Len(scenes_data) = 3
    /\ Len(response) = 2
    /\ stitch_calls = 1

\* C17: a non-empty batch whose dictionaries carry non_dialog and gender besides sec,
\* scene and dialog gets one generation task per scene, and does not end with the
\* error of a rejected dictionary.
C17_ExtraFieldsAccepted ==
    (scenes_data # <<>> /\ fields = RequiredFields \cup {"non_dialog", "gender"}) =>
        /\ run # "called" => DOMAIN jobs = DOMAIN scenes_data
        /\ result.returned => result.error # SceneInitError(fields)

\* The events that carry the outcome of an attempt.
Terminal == {"process_completed: url", "process_completed: no url", "close_stream"}

\* C19: an attempt returns a url only on a process_completed event that carries one; an
\* attempt whose stream reached close_stream or ended without it, or brought a
\* process_completed without a usable url, has failed with an error, and is retried
\* unless it was the last attempt.
C19_NoUrlMeansFailedAttempt ==
    \A j \in Jobs :
        /\ Succeeded(j) =>
              /\ event = "process_completed: url"
              /\ scenes[j].url = URL
        /\ (jobs[j].pc \in {"sleeping", "done"} /\ event = "close_stream") =>
              /\ jobs[j].cause = "No video URL received"
              /\ jobs[j].failed = jobs[j].attempts
        /\ (jobs[j].pc \in {"sleeping", "done"} /\ event = "process_completed: no url") =>
              /\ jobs[j].cause = "SSE Error: Invalid video data received"
              /\ jobs[j].failed = jobs[j].attempts
        /\ (jobs[j].pc = "done" /\ jobs[j].cause # "") =>
              /\ jobs[j].raised
              /\ jobs[j].failed = max_retries
              /\ scenes[j].url = None
        /\ jobs[j].pc = "sleeping" => jobs[j].failed < max_retries

\* C19 witness: the first attempt was closed by close_stream after an informational
\* event and the call is backing off before its retry.
C19_Witness ==
    \E j \in Jobs :
        /\ jobs[j].pc = "sleeping"
        /\ jobs[j].attempts = 1
        /\ consumed = 2
        /\ event = "close_stream"
        /\ jobs[j].cause = "No video URL received"

\* C20: an event that is neither process_completed nor close_stream never ends the
\* attempt: after the loop took such an event the attempt is still waiting on its
\* stream.
C20_OnlyTerminalEventsEndAttempt ==
    [][\A j \in Jobs :
          (jobs[j].pc = "streaming" /\ consumed' = consumed + 1 /\ event' \notin Terminal)
              => jobs'[j].pc = "streaming"]_vars

\* The scene at position i of the batch is being generated by a worker thread.
Generating(i) == \E w \in DOMAIN threads : threads[w].pc = "generating" /\ threads[w].scene = i

Collected(i) == \E k \in DOMAIN seq_results : seq_results[k].sec = scenes_data[i]

\* C18: when the wait for a result runs out because a job takes too long, only the
\* scenes whose jobs are then running are given up: every other scene of the batch has
\* been collected; and whatever was collected is in the response the run returns.
C18_TimeoutSparesSiblings ==
    [][/\ (~timed_out /\ timed_out') =>
             \A i \in DOMAIN scenes_data : Collected(i) \/ Generating(i)
       /\ (seq_pc # "returned" /\ seq_pc' = "returned") =>
             \A i \in DOMAIN scenes_data :
                 Collected(i) => \E k \in DOMAIN response' : response'[k].sec = scenes_data[i]
      ]_vars

\* C21: every call of _generate_video_attempt, a retry included, draws a new token,
\* stores it in session_hash and sends its queue/join request with it: the token of a
\* request is none of the tokens sent before, and the requests in flight carry
\* pairwise different tokens.
C21_FreshTokenEveryAttempt ==
    [][\A j \in Jobs :
          /\ jobs'[j].attempts = jobs[j].attempts + 1 =>
                /\ jobs'[j].pc = "posting"
                /\ jobs'[j].sent # NoToken
                /\ jobs'[j].sent = session_hash'
                /\ jobs'[j].sent \notin submitted
                /\ submitted' = submitted \cup {jobs'[j].sent}
          /\ \A k \in Jobs :
                (k # j /\ jobs[j].sent # NoToken) => jobs[k].sent # jobs[j].sent]_vars

\* C21 witness: a scene is in its third attempt while another scene has sent requests
\* of its own.
C21_Witness ==
    \E j, k \in Jobs :
        /\ j # k
        /\ jobs[j].pc = "posting"
        /\ jobs[j].attempts = 3
        /\ jobs[k].attempts >= 2
        /\ Cardinality(submitted) >= 5

\* C22: process_scenes makes one task per input scene and each task calls
\* generate_single_video once: a task never goes back in line, a task that is over
\* stays over, whether it failed or not, and no scene is attempted more than
\* max_retries times.
C22_NoOrchestratorRetry ==
    [][/\ run' = "process_scenes" => DOMAIN jobs' = DOMAIN scenes_data
       /\ \A j \in Jobs :
             /\ jobs[j].pc # "waiting" => jobs'[j].pc # "waiting"
             /\ jobs[j].pc = "done" => jobs'[j].pc \in {"done", "gone"}
             /\ jobs[j].pc = "done" => (jobs'[j].pc = "done" => jobs'[j] = jobs[j])
             /\ jobs'[j].attempts <= max_retries]_vars

\* C22 witness: a scene used up its max_retries attempts and stays failed while the
\* scene after it is still being generated.
C22_Witness ==
    \E j, k \in Jobs :
        /\ Failed(j)
        /\ jobs[j].attempts = max_retries
        /\ InFlight(k)
        /\ jobs[k].attempts >= 2

\* C23: the clips are the downloaded files that opened, in the order of the downloaded
\* files; a file that did not open is in no clip list and is not given to the merge;
\* it fails the call only when no file opened, and then the call raises.
C23_ClipOpenFailureExcluded ==
    /\ st_pc = "stitch" =>
          /\ clips # <<>>
          /\ st_exc = ""
          /\ LET Opened(f) == f \notin unopened IN clips = SelectSeq(valid_files, Opened)
    /\ Range(clips) \cap unopened = {}
    /\ Range(concat) \cap unopened = {}
    /\ \A a, b \in DOMAIN clips : a < b => clips[a] < clips[b]
    /\ st_exc = "No valid video clips created" => Range(valid_files) \subseteq unopened
    /\ (Ended /\ valid_files # <<>> /\ Range(valid_files) \subseteq unopened) =>
          /\ st_pc = "raised"
          /\ st_exc = "No valid video clips created"

\* C23 witness: of three downloaded files the second did not open; the first and the
\* third were merged and the call returned.
C23_Witness ==
    /\ st_pc = "returned"
    /\ Len(valid_files) = 3
    /\ unopened = {valid_files[2]}
    /\ concat = <<valid_files[1], valid_files[3]>>

\* C24: a removal that fails changes nothing about the way stitch_videos ends: the
\* call returns what it was returning or raises what it was raising; and the removal
\* of every temp file was tried, so that a temp file still on disk is one whose
\* removal failed and was logged.
C24_DeletionIsBestEffort ==
    [][(st_pc \in {"cleanup", "finally"} /\ st_pc' \in {"returned", "raised"}) =>
          /\ st_pc' = IF st_exc = "" THEN "returned" ELSE "raised"
          /\ run # "stitching" => (st_exc' = st_exc /\ st_return' = st_return)
          /\ (fs' \cap Range(temp_files)) \subseteq warned']_vars

\* C27: the other run closing the generator's session when it ends disturbs no attempt
\* of this run: every task is after that step where it was before it, and no attempt
\* ever fails because the session was closed under its request.
C27_CloseSparesOtherRun ==
    [][\A j \in Jobs :
          /\ (other_run # "returned" /\ other_run' = "returned") => jobs'[j] = jobs[j]
          /\ jobs'[j].cause # SessionClosedError]_vars

\* C26: no two temp files of a stitch_videos call have the same path, and no temp path
\* of the call is a temp path of the other call, which writes every path it registered
\* and removes every one of them in its cleanup.
C26_TempPathsNotShared ==
    /\ \A a, b \in DOMAIN temp_files : a # b => temp_files[a] # temp_files[b]
    /\ Range(temp_files) \cap other_files = {}

\* C25: every way out of generate_and_stitch_video goes through close(), which leaves
\* the generator with no session or a closed one and raises nothing, also when the
\* session was closed before (by the other run) or never opened; close() applied again
\* changes nothing.  _cleanup_temp_files applied again to its list, with the same files
\* refusing removal, leaves the disk as the first application left it, and with every
\* file removed the first time it finds nothing to do.
C25_CleanupIdempotent ==
    [][/\ ((run # "returned" /\ run' = "returned")
             \/ (other_run # "returned" /\ other_run' = "returned")) =>
             /\ http_session' = CloseSession(http_session)
             /\ http_session' \in {"None", "closed"}
             /\ CloseSession(http_session') = http_session'
       /\ \A stuck \in SUBSET (Range(temp_files) \cap fs) :
             LET once == CleanupTempFiles(fs, temp_files, stuck) IN
             /\ once \subseteq fs
             /\ CleanupTempFiles(once, temp_files, stuck) = once
             /\ stuck = {} => CleanupTempFiles(once, temp_files, {}) = once]_vars

\* C25 witness: both runs are over, the session they shared is closed, and a temp file
\* of this run that could not be removed is still on disk.
C25_Witness ==
    /\ run = "returned"
    /\ other_run = "returned"
    /\ http_session = "closed"
    /\ stitch_calls = 1
    /\ warned # {}
    /\ fs = warned

\* C28: no step of stitch_videos changes a scene it was given (sec and url here; scene
\* and dialog are never read), nor the list, nor the scenes and the response of
\* process_scenes; the scenes are the same when the call has returned or raised.
C28_StitcherLeavesScenesAlone ==
    [][st_pc # "idle" =>
          /\ st_scenes' = st_scenes
          /\ scenes' = scenes
          /\ response' = response]_vars

\* C28 witness: a call given three scenes, one of them without a url, raised after its
\* encode step failed.
C28_Witness ==
    /\ st_pc = "raised"
    /\ st_exc = "write failed"
    /\ Len(st_scenes) = 3
    /\ \E i \in DOMAIN st_scenes : ~HasUrl(st_scenes[i])
    /\ Len(temp_files) = 2

\* C29: the url a task returns was read from the event stream of the session_hash it
\* sent in its own queue/join request, and no other task is reading that stream.
C29_UrlFromOwnStream ==
    [][\A j \in Jobs :
          (jobs[j].pc = "streaming" /\ jobs'[j].pc = "done" /\ scenes'[j].url # None) =>
              /\ jobs[j].sse = jobs[j].sent
              /\ \A k \in Jobs \ {j} :
                    jobs[k].pc = "streaming" => jobs[k].sse # jobs[j].sse]_vars

\* C30: a call of generate_single_video that is over made at least one attempt and
\* either returned the url of an attempt or raised VideoGenerationError with a message,
\* whatever max_retries the configuration holds.
C30_ReturnsUrlOrRaises ==
    \A j \in Jobs :
        jobs[j].pc = "done" =>
            /\ jobs[j].attempts >= 1
            /\ \/ jobs[j].raised /\ jobs[j].error # ""
               \/ ~jobs[j].raised /\ jobs[j].got >= 1 /\ scenes[j].url = URL

\* C31: when every attempt ends, every task that waits for a permit gets to its first
\* attempt, failed tasks having given their permits back, and process_scenes returns.
C31_EverySceneAttemptedAndRunReturns ==
    /\ \A j \in 1..MaxScenes :
          (j \in DOMAIN jobs /\ jobs[j].pc = "waiting")
              ~> (j \in DOMAIN jobs /\ jobs[j].attempts >= 1)
    /\ (run = "process_scenes") ~> Generated
    /\ [](\A j \in Jobs : jobs[j].attempts <= max_retries)

\* C31 witness: the first two scenes of a batch of three used up their attempts, and
\* the third, which had to wait for one of their permits, was generated; process_scenes
\* has returned.
C31_Witness ==
    /\ Generated
    /\ Len(scenes_data) = 3
    /\ Len(scenes_data) > max_workers
    /\ FailedScenes = {1, 2}
    /\ SucceededScenes = {3}

\* C32: an attempt that submits on the shared pipeline leaves get_session with an open
\* session, whatever an earlier run did to it; a request is cut only by a close made
\* while it was in flight, never by one made before it was sent; and get_video_pipeline
\* returns the object it returned before.
C32_NextRunGetsOpenSession ==
    /\ \A p \in {"None", NewPipeline} :
          /\ get_video_pipeline(p) # "None"
          /\ get_video_pipeline(get_video_pipeline(p)) = get_video_pipeline(p)
    /\ [][\A j \in DOMAIN jobs \cap DOMAIN jobs' :
             /\ (jobs[j].pc # "posting" /\ jobs'[j].pc = "posting")
                    => http_session' = "open"
             /\ (jobs[j].pc # "disconnected" /\ jobs'[j].pc = "disconnected")
                    => /\ jobs[j].pc = "posting"
                       /\ http_session = "open"
                       /\ http_session' = "closed"]_vars

\* C32 witness: the other run has closed the session (the request of one task was cut
\* by that close), and a task that submitted afterwards has its request in flight on a
\* session that is open again.
C32_Witness ==
    /\ other_run = "returned"
    /\ http_session = "open"
    /\ \E j, k \in Jobs :
          /\ jobs[j].pc = "sleeping"
          /\ jobs[j].cause = SessionClosedError
          /\ jobs[k].pc = "posting"

\* C33: when the collector never timed out, the response of generate_video_sequence
\* holds one entry per input scene and no other, in ascending order of sec, each with
\* a url that is the generated URL or the empty string.
C33_NoTimeoutResponseComplete ==
    (run = "sequence" /\ seq_pc = "returned" /\ ~timed_out) =>
        /\ Len(response) = Len(scenes_data)
        /\ \A i \in DOMAIN scenes_data :
              Cardinality({k \in DOMAIN response : response[k].sec = scenes_data[i]}) = 1
        /\ \A k \in DOMAIN response : response[k].url \in {URL, NoUrl}
        /\ \A k, l \in DOMAIN response : k < l => response[k].sec <= response[l].sec

\* C33 witness: three scenes given out of order to two workers, one generation failed,
\* one worker ended early on a task_done() that raised, no timeout; the call returned.
C33_Witness ==
    /\ run = "sequence"
    /\ seq_pc = "returned"
    /\ ~timed_out
    /\ Len(scenes_data) = 3
    /\ scenes_data[1] = 3
    /\ Len(threads) = 2
    /\ \E w \in DOMAIN threads : threads[w].pc = "died"
    /\ \E k \in DOMAIN response : response[k].url = NoUrl
    /\ \E k \in DOMAIN response : response[k].url = URL

\* C34: a scene whose generation finished, its result having been put on result_queue
\* after a collector timeout, is present in the response generate_video_sequence
\* returns.
C34_LaterResultsNotDiscarded ==
    (run = "sequence" /\ seq_pc = "returned") =>
        \A k \in DOMAIN result_queue :
            \E l \in DOMAIN response : response[l].sec = result_queue[k].sec


\* C35: generate_video_sequence leaves its argument as it got it: no step of the call
\* changes a dictionary of scenes_data (no 'url' key appears in it, its keys stay) or
\* the order of the list, and when the call has returned the urls are in the response
\* only.
C35_InputUnmodified ==
    /\ [](run = "sequence" => \A i \in DOMAIN scenes_data : data_urls[i] = NoKey)
    /\ [][scenes_data' = scenes_data /\ fields' = fields /\ data_urls' = data_urls]_vars

\* C35 witness: the call returned a sorted response with a url for each of three scenes
\* that were given out of order; the caller's list still starts with the scene of
\* second 3 and its dictionaries have no url.
C35_Witness ==
    /\ run = "sequence"
    /\ seq_pc = "returned"
    /\ Len(scenes_data) = 3
    /\ scenes_data = <<3, 1, 2>>
    /\ Len(response) = 3
    /\ response[1].sec = 1
    /\ \A k \in DOMAIN response : response[k].url = URL
    /\ \A i \in DOMAIN scenes_data : data_urls[i] = NoKey

\* C36: for a batch whose every generation succeeded at once, generate_video_sequence
\* returns the list process_scenes returns for it: every scene with its url, sorted
\* by sec.
C36_SequenceReturnsWhatPipelineReturns ==
    LET generated == result_queue \o seq_results
        pipeline == ProcessScenesResponse(
                        [i \in DOMAIN scenes_data |-> [sec |-> scenes_data[i], url |-> URL]])
    IN (/\ run = "sequence"
        /\ seq_pc = "returned"
        /\ \A i \in DOMAIN scenes_data :
              \E k \in DOMAIN generated :
                  generated[k].sec = scenes_data[i] /\ generated[k].url = URL)
       => response = pipeline

\* C37: a stitch_videos call makes at most two calls of write_videofile, the second
\* only as the fallback of a first that failed; it returns success with output_path
\* exactly when one of them went through, and when both failed it raises with every
\* source clip closed.
C37_AtMostTwoWrites ==
    /\ writes <= 2
    /\ st_return.success =>
          /\ st_return.path = output_path
          /\ writes \in {1, 2}
          /\ st_exc = ""
    /\ st_exc = "write failed" =>
          /\ writes = 2
          /\ open_clips = {}
          /\ ~st_return.success
    /\ writes = 1 => st_return.success
    /\ writes = 2 => (st_return.success \/ st_exc = "write failed")

\* C37 witness: both writes of a stitch of two clips failed; stitch_videos raised and
\* left no clip open.
C37_Witness ==
    /\ st_pc = "raised"
    /\ st_exc = "write failed"
    /\ writes = 2
    /\ Len(clips) = 2
    /\ open_clips = {}

\* C38: a worker thread that waits for a scene stays a worker until it takes the
\* sentinel: from its get it goes on waiting, takes a scene or exits on None, and
\* never ends otherwise; and the unfinished-task count of scene_queue goes down only
\* in the step in which a worker finishes the scene it holds, by one.
C38_EmptyQueueLeavesWorkerAndCount ==
    [][/\ \A w \in DOMAIN threads :
             /\ threads[w].pc = "get" =>
                   \/ threads'[w] = threads[w]
                   \/ /\ scene_queue # <<>>
                      /\ scene_queue' = Dequeue(scene_queue)
                      /\ threads'[w].pc = IF Head(scene_queue) = 0 THEN "exited"
                                          ELSE "generating"
             /\ threads'[w].pc # "died"
       /\ unfinished_tasks' < unfinished_tasks =>
             /\ unfinished_tasks' = unfinished_tasks - 1
             /\ \E w \in DOMAIN threads :
                   threads[w].pc = "generating" /\ threads'[w].pc # "generating"
      ]_vars

====
